---- MODULE Spec2Model ----
(***************************************************************************)
(* A model of ir2hid (src/src/ir2hid.c): the mapping-table loader, the     *)
(* lookup, the debounce filter, the event queue with its two producers and *)
(* the consumer loop with the HID dispatch and the shared display state.   *)
(*                                                                         *)
(* Text is a sequence of characters, each character a one-character        *)
(* string; NUL stands for the C string terminator.  C indices are 0-based, *)
(* the positions of this module are 1-based.                               *)
(***************************************************************************)
EXTENDS Integers, Sequences, FiniteSets, TLC

\* ------------------------------------------------------------------------
\* Platform constants and helpers
\* ------------------------------------------------------------------------

NUL == "NUL"
CR == "\r"
LF == "\n"

\* A uint32_t is the pair <<high half, low half>> of its 16-bit halves, so
\* that its arithmetic keeps the 32-bit width (modulo 2^32).
U16 == 65536
Zero32 == <<0, 0>>
Nat32(n) == <<0, n>>

\* (v << 4) | nibble
ShiftInNibble(v, nibble) ==
    <<(v[1] * 16 + ((v[2] * 16) \div U16)) % U16, (v[2] * 16 + nibble) % U16>>

\* a + d for a small d, modulo 2^32
Add32(a, d) ==
    <<(a[1] + ((a[2] + d) \div U16)) % U16, (a[2] + d) % U16>>

\* a - b, modulo 2^32
Sub32(a, b) ==
    LET borrow == IF a[2] < b[2] THEN 1 ELSE 0
    IN  <<(a[1] - b[1] - borrow + 2 * U16) % U16, (a[2] - b[2] + U16) % U16>>

\* a < k for a k below 2^16
Less32(a, k) == a[1] = 0 /\ a[2] < k

\* InfraredProtocol: Unknown is -1, NEC is the enumeration's value 0 (what a
\* zeroed entry holds); only the names of the registry resolve.
ProtocolUnknown == "Unknown"
ProtocolZero == "NEC"
ProtocolNames ==
    { <<"NEC", <<"N", "E", "C">>>>, <<"RC5", <<"R", "C", "5">>>> }

infrared_get_protocol_by_name(s) ==
    IF \E pn \in ProtocolNames : pn[2] = s
    THEN (CHOOSE pn \in ProtocolNames : pn[2] = s)[1]
    ELSE ProtocolUnknown

infrared_is_protocol_valid(proto) == proto # ProtocolUnknown

HexDigits ==
    { <<"0", 0>>, <<"1", 1>>, <<"2", 2>>, <<"3", 3>>, <<"4", 4>>, <<"5", 5>>,
      <<"6", 6>>, <<"7", 7>>, <<"8", 8>>, <<"9", 9>>,
      <<"A", 10>>, <<"B", 11>>, <<"C", 12>>, <<"D", 13>>, <<"E", 14>>, <<"F", 15>>,
      <<"a", 10>>, <<"b", 11>>, <<"c", 12>>, <<"d", 13>>, <<"e", 14>>, <<"f", 15>> }

\* hex_char_to_hex_nibble: [ok, nibble]
hex_char_to_hex_nibble(c) ==
    IF \E h \in HexDigits : h[1] = c
    THEN [ok |-> TRUE, nibble |-> (CHOOSE h \in HexDigits : h[1] = c)[2]]
    ELSE [ok |-> FALSE, nibble |-> 0]

\* The C string that starts at position p of buffer b (up to the first NUL).
RECURSIVE CStr(_, _)
CStr(b, p) ==
    IF p > Len(b) \/ b[p] = NUL THEN <<>> ELSE <<b[p]>> \o CStr(b, p + 1)

\* ------------------------------------------------------------------------
\* Hex parsing
\* ------------------------------------------------------------------------

ir2hid_strip_hex_prefix(s) ==
    IF Len(s) >= 2 /\ s[1] = "0" /\ (s[2] = "x" \/ s[2] = "X")
    THEN SubSeq(s, 3, Len(s))
    ELSE s

\* The while loop of ir2hid_parse_hex_u32 from position i with accumulator
\* value: [ok, value].
RECURSIVE ParseHexLoop(_, _, _, _)
ParseHexLoop(s, i, value, any) ==
    IF i > Len(s)
    THEN [ok |-> any, value |-> value]
    ELSE LET n == hex_char_to_hex_nibble(s[i])
         IN  IF ~n.ok
             THEN [ok |-> FALSE, value |-> Zero32]
             ELSE ParseHexLoop(s, i + 1, ShiftInNibble(value, n.nibble), TRUE)

ir2hid_parse_hex_u32(s) == ParseHexLoop(s, 1, Zero32, FALSE)

\* ------------------------------------------------------------------------
\* One line of the table
\* ------------------------------------------------------------------------

MaxColumns == 4

\* The column scan of ir2hid_parse_lut_line: walks the line at p, writes NUL
\* over each comma, records where each column starts (0: not set).
RECURSIVE ScanColumns(_, _, _, _)
ScanColumns(b, p, col_index, cols) ==
    IF p > Len(b) \/ b[p] = NUL \/ ~(col_index < MaxColumns)
    THEN [buf |-> b, col_index |-> col_index, cols |-> cols]
    ELSE IF b[p] = ","
         THEN ScanColumns([b EXCEPT ![p] = NUL], p + 1, col_index + 1,
                          IF col_index + 1 < MaxColumns
                          THEN [cols EXCEPT ![col_index + 2] = p + 1]
                          ELSE cols)
         ELSE ScanColumns(b, p + 1, col_index, cols)

\* A range test that lets every HID value pass
HidOutOfRange_Never(hid_val) == FALSE

\* The range test of ir2hid_parse_lut_line on the parsed HID column
HidOutOfRange(hid_val) == ~Less32(hid_val, 256)

ZeroEntry ==
    [ir |-> [protocol |-> ProtocolZero, address |-> Zero32, command |-> Zero32,
             repeat |-> FALSE],
     hid_code |-> 0]

\* ir2hid_parse_lut_line on the line that starts at line_start of b:
\* [ok, entry, buf] (buf: the buffer with the commas overwritten).
ir2hid_parse_lut_line(b, line_start) ==
    LET sc == ScanColumns(b, line_start, 0, <<line_start, 0, 0, 0>>)
        fail == [ok |-> FALSE, entry |-> ZeroEntry, buf |-> sc.buf]
    IN  IF sc.col_index < MaxColumns - 1
        THEN fail
        ELSE
          LET proto == infrared_get_protocol_by_name(CStr(sc.buf, sc.cols[1]))
              addr == ir2hid_parse_hex_u32(
                          ir2hid_strip_hex_prefix(CStr(sc.buf, sc.cols[2])))
              cmd == ir2hid_parse_hex_u32(
                          ir2hid_strip_hex_prefix(CStr(sc.buf, sc.cols[3])))
              hid == ir2hid_parse_hex_u32(
                          ir2hid_strip_hex_prefix(CStr(sc.buf, sc.cols[4])))
          IN  IF ~infrared_is_protocol_valid(proto) THEN fail
              ELSE IF ~addr.ok THEN fail
              ELSE IF ~cmd.ok THEN fail
              ELSE IF ~hid.ok THEN fail
              ELSE IF HidOutOfRange(hid.value) THEN fail
              ELSE [ok |-> TRUE,
                    entry |-> [ir |-> [protocol |-> proto,
                                       address |-> addr.value,
                                       command |-> cmd.value,
                                       repeat |-> FALSE],
                               hid_code |-> hid.value[2] % 256],
                    buf |-> sc.buf]

\* ------------------------------------------------------------------------
\* Loading the table
\* ------------------------------------------------------------------------

\* Sanity bound of ir2hid_load_lut on the file size, in bytes
MaxFileSize == 8192

\* A size check without the upper bound
FileSizeRejected_NoCeiling(file_size) == file_size = 0

\* The sanity check of ir2hid_load_lut on storage_file_size
FileSizeRejected(file_size) == file_size = 0 \/ file_size > MaxFileSize

IsLineEnd(c) == c = CR \/ c = LF \/ c = NUL

\* A for loop over the positions lo..hi of the buffer is the fold of its
\* body over lo, lo+1, ..., hi; the fold is evaluated by halving the range,
\* which visits the positions in the same order.

\* Body of the first pass of ir2hid_load_lut at position i (1-based; the
\* buffer holds the characters read and the terminator): splits the lines in
\* place and counts the non-blank lines after the first.
FirstPassStep(st, i) ==
    IF IsLineEnd(st.buf[i])
    THEN LET b2 == [st.buf EXCEPT ![i] = NUL]
             nonblank == b2[st.line_start] # NUL
         IN  [buf |-> b2,
              line_no |-> IF nonblank THEN st.line_no + 1 ELSE st.line_no,
              data_lines |-> IF nonblank /\ st.line_no > 0
                             THEN st.data_lines + 1 ELSE st.data_lines,
              line_start |-> i + 1]
    ELSE st

RECURSIVE FirstPass(_, _, _)
FirstPass(st, lo, hi) ==
    IF lo > hi THEN st
    ELSE IF lo = hi THEN FirstPassStep(st, lo)
    ELSE LET first == FirstPass(st, lo, (lo + hi) \div 2)
         IN  IF first.line_no >= 0    \* the first half is evaluated first
             THEN FirstPass(first, ((lo + hi) \div 2) + 1, hi)
             ELSE first

\* SecondPassStep with a malformed row ending the load
SecondPassStep_AbortOnBadRow(st, i) ==
    IF ~(st.lut_index < st.data_lines) THEN st
    ELSE IF st.buf[i] # NUL THEN st
    ELSE IF st.buf[st.line_start] = NUL THEN [st EXCEPT !.line_start = i + 1]
    ELSE IF ~(st.line_no > 0)
         THEN [st EXCEPT !.line_no = st.line_no + 1, !.line_start = i + 1]
         ELSE LET r == ir2hid_parse_lut_line(st.buf, st.line_start)
              IN  [buf |-> r.buf,
                   line_no |-> st.line_no + 1,
                   line_start |-> i + 1,
                   lut |-> IF r.ok
                           THEN [st.lut EXCEPT ![st.lut_index + 1] = r.entry]
                           ELSE st.lut,
                   lut_index |-> IF r.ok THEN st.lut_index + 1
                                 ELSE st.lut_index,
                   data_lines |-> IF r.ok THEN st.data_lines
                                  ELSE st.lut_index]

\* Body of the second pass at position i: parses each non-blank line after
\* the first into the next free slot of lut.  The loop ends as soon as
\* lut_index reaches data_lines: no later position is visited.
SecondPassStep(st, i) ==
    IF ~(st.lut_index < st.data_lines) THEN st
    ELSE IF st.buf[i] # NUL THEN st
    ELSE IF st.buf[st.line_start] = NUL THEN [st EXCEPT !.line_start = i + 1]
    ELSE IF ~(st.line_no > 0)
         THEN [st EXCEPT !.line_no = st.line_no + 1, !.line_start = i + 1]
         ELSE LET r == ir2hid_parse_lut_line(st.buf, st.line_start)
              IN  [buf |-> r.buf,
                   line_no |-> st.line_no + 1,
                   line_start |-> i + 1,
                   lut |-> IF r.ok
                           THEN [st.lut EXCEPT ![st.lut_index + 1] = r.entry]
                           ELSE st.lut,
                   lut_index |-> IF r.ok THEN st.lut_index + 1
                                 ELSE st.lut_index,
                   data_lines |-> st.data_lines]

RECURSIVE SecondPass(_, _, _)
SecondPass(st, lo, hi) ==
    IF lo > hi THEN st
    ELSE IF lo = hi THEN SecondPassStep(st, lo)
    ELSE LET first == SecondPass(st, lo, (lo + hi) \div 2)
         IN  IF first.line_no >= 0    \* the first half is evaluated first
             THEN SecondPass(first, ((lo + hi) \div 2) + 1, hi)
             ELSE first

\* What ir2hid_load_lut leaves in the application for a file of the given
\* size and text (exists: storage_file_open succeeds): outcome "not_found" (the
\* display is written), "skipped" (size 0 or above the bound, or no data
\* line: app->lut stays NULL) or "loaded" (app->lut is the allocated array of
\* data_lines slots, zeroed beyond lut_count).  storage_file_read is taken to
\* read the whole file and malloc to succeed (the platform's malloc does not
\* return NULL).
ir2hid_load_lut(exists, file_size, text) ==
    IF ~exists
    THEN [outcome |-> "not_found", lut |-> <<>>, lut_count |-> 0]
    ELSE IF FileSizeRejected(file_size)
    THEN [outcome |-> "skipped", lut |-> <<>>, lut_count |-> 0]
    ELSE LET buf == text \o <<NUL>>
             p1 == FirstPass([buf |-> buf, line_no |-> 0, data_lines |-> 0,
                              line_start |-> 1], 1, Len(buf))
         IN  IF p1.data_lines = 0
             THEN [outcome |-> "skipped", lut |-> <<>>, lut_count |-> 0]
             ELSE LET p2 == SecondPass(
                                [buf |-> p1.buf, line_no |-> 0,
                                 line_start |-> 1,
                                 lut |-> [k \in 1..p1.data_lines |-> ZeroEntry],
                                 lut_index |-> 0,
                                 data_lines |-> p1.data_lines],
                                1, Len(buf))
                  IN  [outcome |-> "loaded", lut |-> p2.lut,
                       lut_count |-> p2.lut_index]

\* ------------------------------------------------------------------------
\* Lookup
\* ------------------------------------------------------------------------

\* LookupLoop with a later match overriding an earlier one
RECURSIVE LookupLoop_LastMatch(_, _, _, _)
LookupLoop_LastMatch(tbl, count, ir, i) ==
    IF ~(i <= count)
    THEN [found |-> FALSE, hid_code |-> 0]
    ELSE LET e == tbl[i]
             rest == LookupLoop_LastMatch(tbl, count, ir, i + 1)
         IN  IF rest.found THEN rest
             ELSE IF e.ir.protocol = ir.protocol /\ e.ir.address = ir.address
                     /\ e.ir.command = ir.command
             THEN [found |-> TRUE, hid_code |-> e.hid_code]
             ELSE rest

\* The for loop of ir2hid_lookup_hid_code from slot i: [found, hid_code]
RECURSIVE LookupLoop(_, _, _, _)
LookupLoop(tbl, count, ir, i) ==
    IF ~(i <= count)
    THEN [found |-> FALSE, hid_code |-> 0]
    ELSE LET e == tbl[i]
         IN  IF e.ir.protocol = ir.protocol /\ e.ir.address = ir.address
                /\ e.ir.command = ir.command
             THEN [found |-> TRUE, hid_code |-> e.hid_code]
             ELSE LookupLoop(tbl, count, ir, i + 1)

\* ir2hid_lookup_hid_code; is_null: app->lut is NULL.  hid_code keeps the
\* caller's initial 0 when nothing is found.
ir2hid_lookup_hid_code(is_null, tbl, count, ir) ==
    IF is_null \/ count = 0
    THEN [found |-> FALSE, hid_code |-> 0]
    ELSE LookupLoop(tbl, count, ir, 1)

\* ------------------------------------------------------------------------
\* Formatting of the display lines
\* ------------------------------------------------------------------------

DigitChars ==
    <<"0", "1", "2", "3", "4", "5", "6", "7", "8", "9",
      "A", "B", "C", "D", "E", "F">>

\* The four nibbles of a 16-bit half, most significant first
Nibbles16(h) ==
    <<h \div 4096, (h \div 256) % 16, (h \div 16) % 16, h % 16>>

RECURSIVE StripLeadingZeros(_)
StripLeadingZeros(ns) ==
    IF ns # <<>> /\ Head(ns) = 0 THEN StripLeadingZeros(Tail(ns)) ELSE ns

ToChars(ns) == [k \in 1..Len(ns) |-> DigitChars[ns[k] + 1]]

\* "%04lX": upper-case hexadecimal, zero-padded to at least 4 digits
FormatHex04(v) ==
    IF v[1] = 0
    THEN ToChars(Nibbles16(v[2]))
    ELSE ToChars(StripLeadingZeros(Nibbles16(v[1])) \o Nibbles16(v[2]))

\* "%02X" of a uint8_t
FormatHex02(c) == ToChars(<<(c \div 16) % 16, c % 16>>)

\* Capacity of text_proto, text_addr, text_cmd and of the temp buffers
TextSize == 32

\* snprintf and strlcpy into a buffer of TextSize bytes keep at most
\* TextSize - 1 characters
Truncate(t) == IF Len(t) > TextSize - 1 THEN SubSeq(t, 1, TextSize - 1) ELSE t

StrProto == <<"P", "r", "o", "t", "o", ":", " ">>
StrAddr == <<"A", "d", "d", "r", ":", " ", "0", "x">>
StrCmd == <<"C", "m", "d", ":", "0", "x">>
StrHid == <<" ", "H", "I", "D", ":", "0", "x">>
StrNoMap == <<" ", "(", "n", "o", " ", "m", "a", "p", ")">>
StrUnknown == <<"U", "n", "k", "n", "o", "w", "n">>
StrNotFound == <<"l", "u", "t", ".", "c", "s", "v", " ", "n", "o", "t", " ", "f", "o", "u", "n", "d">>

\* infrared_get_protocol_name: the registry's name of a valid protocol
infrared_get_protocol_name(proto) ==
    (CHOOSE pn \in ProtocolNames : pn[1] = proto)[2]

\* The three temp buffers the consumer formats for an accepted signal;
\* lk is the result of the lookup.
FormatProto(ir) ==
    Truncate(StrProto \o (IF infrared_is_protocol_valid(ir.protocol)
                          THEN infrared_get_protocol_name(ir.protocol)
                          ELSE StrUnknown))

FormatAddr(ir) == Truncate(StrAddr \o FormatHex04(ir.address))

FormatCmd(ir, lk) ==
    IF lk.found
    THEN Truncate(StrCmd \o FormatHex04(ir.command) \o StrHid
                  \o FormatHex02(lk.hid_code))
    ELSE Truncate(StrCmd \o FormatHex04(ir.command) \o StrNoMap)

\* ------------------------------------------------------------------------
\* The application state
\* ------------------------------------------------------------------------

VARIABLES
    file,            \* the table file on the storage: [exists, head, pad]
    env,             \* what the surroundings do in this run (fixed by Init)
    calls,           \* producer callbacks invoked so far
    pc,              \* position of the application thread in ir2hid_app
    running,         \* the loop variable of the main loop
    event_queue,     \* app->event_queue, oldest first
    enq_count,       \* events put into the queue so far (numbers them)
    event,           \* the local AppEvent of the main loop
    mutex,           \* app->mutex: "free", or the context that holds it
    text_proto, text_addr, text_cmd, has_signal,
    temp,            \* the temp_proto, temp_addr, temp_cmd buffers
    lut, lut_count,  \* app->lut (the allocated slots), app->lut_count
    lut_ptr,         \* app->lut is "NULL", "alloc" or "freed"
    usb_hid_active,
    hid_connected,   \* the latest answer of furi_hal_hid_is_connected()
    hid_sent,        \* HID reports sent while handling the latest event
    hid_held,        \* key codes the host sees pressed
    last_proto, last_addr, last_cmd, last_tick,
    tick,            \* the tick counter at its latest reading
    ir_worker,       \* "none", "rx" (receiving) or "freed"
    view_port,       \* "added" (callbacks can run) or "freed"
    released,        \* resources freed by the cleanup
    verdict,         \* how the main loop handled the latest event
    seen,            \* the last two signals that reached the debounce
                     \* test, oldest first: [sig, tick, verdict]
    dropped,         \* the producers whose put found the queue full
    redraws,         \* view_port_update calls made for the latest event
    exit_pressed     \* input_callback has been given a short press of Back

display == <<text_proto, text_addr, text_cmd, has_signal>>
debounce == <<last_proto, last_addr, last_cmd, last_tick>>
table == <<lut, lut_count, lut_ptr>>
hid == <<hid_sent, hid_held>>
vars ==
    <<file, env, calls, pc, running, event_queue, enq_count, event, mutex,
      text_proto, text_addr, text_cmd, has_signal, temp, lut, lut_count,
      lut_ptr, usb_hid_active, hid_connected, hid_sent, hid_held,
      last_proto, last_addr, last_cmd, last_tick, tick, ir_worker,
      view_port, released, verdict, seen, dropped, redraws, exit_pressed>>

\* ------------------------------------------------------------------------
\* Events
\* ------------------------------------------------------------------------

NoInput == [key |-> "None", type |-> "None"]
NoMessage ==
    [protocol |-> ProtocolUnknown, address |-> Zero32, command |-> Zero32,
     repeat |-> FALSE]

\* An AppEvent; seq numbers the events in the order they entered the queue.
KeyEvent(input, n) ==
    [type |-> "Key", input |-> input, ir_message |-> NoMessage, seq |-> n]
IrEvent(msg, n) ==
    [type |-> "IRSignal", input |-> NoInput, ir_message |-> msg, seq |-> n]
NoEvent ==
    [type |-> "None", input |-> NoInput, ir_message |-> NoMessage, seq |-> 0]

Signature(ir) == <<ir.protocol, ir.address, ir.command>>

\* Slots of the event queue (furi_message_queue_alloc)
QueueCapacity == 8

\* A put that makes room in a full queue by discarding its oldest event
furi_message_queue_put_Overwrite(q, e) ==
    IF Len(q) < QueueCapacity THEN Append(q, e) ELSE Append(Tail(q), e)

\* A put that places the event at the front of the queue
furi_message_queue_put_Front(q, e) ==
    IF Len(q) < QueueCapacity THEN <<e>> \o q ELSE q

\* furi_message_queue_put with timeout 0: appends when a slot is free,
\* returns at once with the queue unchanged when it is full.
furi_message_queue_put(q, e) ==
    IF Len(q) < QueueCapacity THEN Append(q, e) ELSE q

\* ------------------------------------------------------------------------
\* Bounds of the model and the inputs of a run
\* ------------------------------------------------------------------------

\* Producer callbacks in a run whose producers draw from every input
MaxVaried == 3
\* Producer callbacks beyond the queue's capacity in a run that floods it
MaxOverflow == 1
\* Ticks that pass between two readings of the tick counter, at most
MaxDelta == 5
\* Ticks that pass in a run (the ticks of its env), at most
MaxElapsed == 9
\* Rows of a generated table file drawn freely, at most
MaxRows == 3

Msg(p, a, c, r) == [protocol |-> p, address |-> a, command |-> c, repeat |-> r]
SigA == <<"NEC", Nat32(4), Nat32(10)>>
\* The all-zero signal of protocol 0, which a zeroed table slot equals
SigB == <<"NEC", Zero32, Zero32>>
MsgOf(sig, r) == Msg(sig[1], sig[2], sig[3], r)

Decoded(m) == [decoded |-> TRUE, message |-> m]
Undecoded == [decoded |-> FALSE, message |-> NoMessage]

BackShort == [key |-> "Back", type |-> "Short"]
BackLong == [key |-> "Back", type |-> "Long"]
OkShort == [key |-> "Ok", type |-> "Short"]

\* A run whose producers draw from every input, started early after boot
Varied ==
    [signals |-> { Decoded(MsgOf(SigA, FALSE)), Decoded(MsgOf(SigA, TRUE)),
                   Decoded(MsgOf(SigB, FALSE)), Undecoded },
     inputs |-> { BackShort, BackLong, OkShort },
     budget |-> MaxVaried, boot |-> Nat32(2), ticks |-> MaxElapsed]

\* A run that floods the queue, started shortly before the 32-bit tick
\* counter wraps
Flood ==
    [signals |-> { Decoded(MsgOf(SigA, FALSE)) },
     inputs |-> { OkShort },
     budget |-> QueueCapacity + MaxOverflow, boot |-> <<U16 - 1, U16 - 3>>,
     ticks |-> MaxElapsed]

\* The text of a file: its head followed by pad characters "#"
FileText(f) == f.head \o [k \in 1..f.pad |-> "#"]
\* storage_file_size
FileSize(f) == Len(f.head) + f.pad

Absent == [exists |-> FALSE, head |-> <<>>, pad |-> 0]

\* A table with two rows of the same signature, a malformed row and comment
\* columns; the padding of a file lengthens the comment of its last row
TableHead ==
    <<"p", "r", "o", "t", "o", "c", "o", "l", ",", "a", "d", "d", "r", "e", "s", "s", ",", "c", "o", "m", "m", "a", "n", "d", ",", "h", "i", "d", LF>>
    \o <<"N", "E", "C", ",", "0", "x", "0", "4", ",", "0", "x", "0", "A", ",", "0", "x", "0", "1", ",", "v", "o", "l", "+", LF>>
    \o <<"N", "E", "C", ",", "0", "x", "0", "4", ",", "0", "x", "0", "A", LF>>
    \o <<"N", "E", "C", ",", "0", "x", "0", "4", ",", "0", "x", "0", "A", ",", "0", "x", "0", "2", ",">>

\* The table padded to exactly the size bound, and to one byte more
FullFile ==
    [exists |-> TRUE, head |-> TableHead, pad |-> MaxFileSize - Len(TableHead)]
OversizeFile ==
    [exists |-> TRUE, head |-> TableHead,
     pad |-> MaxFileSize + 1 - Len(TableHead)]

RunFiles == { Absent, FullFile, OversizeFile }

\* Rows of the generated table files.  CoreRows: three well-formed rows
\* (two of one signature; a comment column; upper- and lower-case digits and
\* prefixes) and three malformed ones (three columns, an unknown protocol
\* name, an empty number).  A file holds up to MaxRows of them in any order.
CoreRows ==
    { <<"N", "E", "C", ",", "0", "x", "0", "4", ",", "0", "x", "0", "A", ",", "0", "x", "0", "1">>,
      <<"N", "E", "C", ",", "4", ",", "A", ",", "2", ",", "d", "u", "p">>,
      <<"R", "C", "5", ",", "0", "X", "4", ",", "0", "x", "0", "b", ",", "f", "F">>,
      <<"N", "E", "C", ",", "0", "x", "0", "4", ",", "0", "x", "0", "A">>,
      <<"n", "e", "c", ",", "4", ",", "A", ",", "1">>,
      <<"N", "E", "C", ",", "4", ",", "0", "x", ",", "1">> }

\* More rows, each tried between two well-formed rows: one column, an empty
\* column, a non-hexadecimal column, a HID code above 255, numbers of more
\* than 8 digits, zeros, a leading blank, a doubled prefix, HID columns of 9
\* digits whose value modulo 2^32 is 256 and 255.
ExtraRows ==
    { <<"N", "E", "C">>,
      <<"N", "E", "C", ",", ",", "A", ",", "1">>,
      <<"N", "E", "C", ",", "4", ",", "G", ",", "1">>,
      <<"N", "E", "C", ",", "4", ",", "A", ",", "1", "0", "0">>,
      <<"N", "E", "C", ",", "4", ",", "A", ",", "1", "0", "0", "0", "0", "0", "0", "0", "1">>,
      <<"N", "E", "C", ",", "1", "0", "0", "0", "0", "0", "0", "0", "4", ",", "A", ",", "3">>,
      <<"N", "E", "C", ",", "0", ",", "0", ",", "0", ",">>,
      <<" ", "N", "E", "C", ",", "4", ",", "A", ",", "1">>,
      <<"N", "E", "C", ",", "4", ",", "A", ",", "0", "x", "0", "x", "1">>,
      <<"N", "E", "C", ",", "4", ",", "A", ",", "F", "0", "0", "0", "0", "0", "1", "0", "0">>,
      <<"N", "E", "C", ",", "4", ",", "B", ",", "0", "x", "1", "0", "0", "0", "0", "0", "0", "f", "F">> }

RowLists ==
    UNION { [1..k -> CoreRows] : k \in 0..MaxRows }
    \cup { <<<<"N", "E", "C", ",", "4", ",", "A", ",", "2", ",", "d", "u", "p">>, x, <<"N", "E", "C", ",", "0", "x", "0", "4", ",", "0", "x", "0", "A", ",", "0", "x", "0", "1">>>> : x \in ExtraRows }

\* Layouts of a generated file: its first non-blank line (a title, a title
\* after a blank line, a title that reads like a data row), its line end
\* and what follows its last row
Layouts ==
    { [header |-> <<"h", "d", "r">>, le |-> <<LF>>, last |-> <<>>],
      [header |-> <<LF, "h", "d", "r">>, le |-> <<CR, LF>>, last |-> <<CR, LF>>],
      [header |-> <<"N", "E", "C", ",", "1", ",", "1", ",", "1">>, le |-> <<LF>>, last |-> <<LF, LF>>],
      [header |-> <<"h", "d", "r">>, le |-> <<CR>>, last |-> <<>>] }

RECURSIVE JoinRows(_, _)
JoinRows(rs, le) ==
    IF rs = <<>> THEN <<>>
    ELSE IF Len(rs) = 1 THEN rs[1]
    ELSE rs[1] \o le \o JoinRows(Tail(rs), le)

TableTexts ==
    { l.header \o l.le \o JoinRows(rs, l.le) \o l.last :
        l \in Layouts,
        rs \in RowLists }
    \cup { <<>>, <<LF>>, <<"h", "d", "r">> }

TableFiles ==
    { [exists |-> TRUE, head |-> t, pad |-> 0] : t \in TableTexts }
    \cup { Absent }

\* A run in which no producer callback is invoked
Quiet ==
    [signals |-> {}, inputs |-> {}, budget |-> 0, boot |-> Nat32(2),
     ticks |-> 0]

\* ------------------------------------------------------------------------
\* The state after the construction in ir2hid_app (up to the USB setup)
\* ------------------------------------------------------------------------

InitApp ==
    /\ calls = 0
    /\ pc = "load"
    /\ running = TRUE
    /\ event_queue = <<>>
    /\ enq_count = 0
    /\ event = NoEvent
    /\ mutex = "free"
    /\ text_proto = <<>> /\ text_addr = <<>> /\ text_cmd = <<>>
    /\ has_signal = FALSE
    /\ temp = <<<<>>, <<>>, <<>>>>
    /\ lut = <<>> /\ lut_count = 0 /\ lut_ptr = "NULL"
    /\ usb_hid_active \in BOOLEAN
    /\ hid_connected = FALSE
    /\ hid_sent = <<>>
    /\ hid_held = {}
    /\ last_proto = ProtocolUnknown
    /\ last_addr = Zero32
    /\ last_cmd = Zero32
    /\ last_tick = Zero32
    /\ tick = env.boot
    /\ ir_worker = "none"
    /\ view_port = "added"
    /\ released = {}
    /\ verdict = "none"
    /\ seen = <<>>
    /\ dropped = {}
    /\ redraws = 0
    /\ exit_pressed = FALSE

Init ==
    /\ \/ env = Varied /\ file \in RunFiles
       \/ env = Flood /\ file = FullFile
    /\ InitApp
    /\ env = Flood => usb_hid_active

InitTable ==
    /\ file \in TableFiles
    /\ env = Quiet
    /\ InitApp
    /\ usb_hid_active

\* ------------------------------------------------------------------------
\* Startup: loading the table, starting the decoder
\* ------------------------------------------------------------------------

\* ir2hid_load_lut up to its return or, for a missing file, up to the
\* acquisition of the mutex
LoadLut ==
    /\ pc = "load"
    /\ LET r == ir2hid_load_lut(file.exists, FileSize(file), FileText(file))
       IN  /\ lut' = r.lut
           /\ lut_count' = r.lut_count
           /\ lut_ptr' = IF r.outcome = "loaded" THEN "alloc" ELSE "NULL"
           /\ pc' = IF r.outcome = "not_found" THEN "load_lock" ELSE "ir_setup"
    /\ UNCHANGED <<file, env, calls, running, event_queue, enq_count, event,
                   mutex, display, temp, usb_hid_active, hid_connected, hid,
                   debounce, tick, ir_worker, view_port, released, verdict,
                   seen, dropped,
                   redraws, exit_pressed>>

\* furi_mutex_acquire in ir2hid_load_lut
LoadLock ==
    /\ pc = "load_lock"
    /\ mutex = "free"
    /\ mutex' = "main"
    /\ pc' = "load_write"
    /\ UNCHANGED <<file, env, calls, running, event_queue, enq_count, event,
                   display, temp, table, usb_hid_active, hid_connected, hid,
                   debounce, tick, ir_worker, view_port, released, verdict,
                   seen, dropped,
                   redraws, exit_pressed>>

\* A return for a missing file that leaves the display state as it is
LoadNotFound_Silent ==
    /\ pc = "load_write"
    /\ mutex' = "free"
    /\ pc' = "ir_setup"
    /\ UNCHANGED <<file, env, calls, running, event_queue, enq_count, event,
                   display, temp, table, usb_hid_active, hid_connected, hid,
                   debounce, tick, ir_worker, view_port, released, verdict,
                   seen, dropped,
                   redraws, exit_pressed>>

\* The "not found" message and furi_mutex_release in ir2hid_load_lut
LoadNotFound ==
    /\ pc = "load_write"
    /\ text_proto' = Truncate(StrNotFound)
    /\ text_addr' = <<>>
    /\ text_cmd' = <<>>
    /\ has_signal' = TRUE
    /\ mutex' = "free"
    /\ pc' = "ir_setup"
    /\ UNCHANGED <<file, env, calls, running, event_queue, enq_count, event,
                   temp, table, usb_hid_active, hid_connected, hid,
                   debounce, tick, ir_worker, view_port, released, verdict,
                   seen, dropped,
                   redraws, exit_pressed>>

\* infrared_worker_alloc .. infrared_worker_rx_start
StartWorker ==
    /\ pc = "ir_setup"
    /\ ir_worker' = "rx"
    /\ pc' = "wait"
    /\ UNCHANGED <<file, env, calls, running, event_queue, enq_count, event,
                   mutex, display, temp, table, usb_hid_active, hid_connected,
                   hid, debounce, tick, view_port, released, verdict, seen, dropped,
                   redraws, exit_pressed>>

\* ------------------------------------------------------------------------
\* The producers and the renderer
\* ------------------------------------------------------------------------

\* A callback that marks the display state for the signal it enqueues
IrWorkerCallback_Displays ==
    /\ ir_worker = "rx"
    /\ calls < env.budget
    /\ \E s \in env.signals :
         LET q == IF s.decoded
                  THEN furi_message_queue_put(
                           event_queue, IrEvent(s.message, enq_count + 1))
                  ELSE event_queue
         IN  /\ event_queue' = q
             /\ enq_count' = IF q # event_queue THEN enq_count + 1
                             ELSE enq_count
             /\ dropped' = IF s.decoded /\ q = event_queue
                           THEN dropped \cup {"ir_worker_callback"}
                           ELSE dropped
             /\ has_signal' = s.decoded
    /\ calls' = calls + 1
    /\ UNCHANGED <<file, env, pc, running, event, mutex, text_proto, text_addr,
                   text_cmd, temp, table, usb_hid_active, hid_connected, hid,
                   debounce, tick, ir_worker, view_port, released, verdict,
                   seen, redraws, exit_pressed>>

\* ir_worker_callback, run by the decoder's thread for a received signal
IrWorkerCallback ==
    /\ ir_worker = "rx"
    /\ calls < env.budget
    /\ \E s \in env.signals :
         LET q == IF s.decoded
                  THEN furi_message_queue_put(
                           event_queue, IrEvent(s.message, enq_count + 1))
                  ELSE event_queue
         IN  /\ event_queue' = q
             /\ enq_count' = IF q # event_queue THEN enq_count + 1
                             ELSE enq_count
             /\ dropped' = IF s.decoded /\ q = event_queue
                           THEN dropped \cup {"ir_worker_callback"}
                           ELSE dropped
    /\ UNCHANGED exit_pressed
    /\ calls' = calls + 1
    /\ UNCHANGED <<file, env, pc, running, event, mutex, display, temp,
                   table, usb_hid_active, hid_connected, hid, debounce, tick,
                   ir_worker, view_port, released, verdict, seen, redraws>>

\* input_callback, run by the GUI for an input event of the view port
InputCallback ==
    /\ view_port = "added"
    /\ calls < env.budget
    /\ \E input \in env.inputs :
         LET q == furi_message_queue_put(
                      event_queue, KeyEvent(input, enq_count + 1))
         IN  /\ event_queue' = q
             /\ enq_count' = IF q # event_queue THEN enq_count + 1
                             ELSE enq_count
             /\ dropped' = IF q = event_queue
                           THEN dropped \cup {"input_callback"}
                           ELSE dropped
             /\ exit_pressed' = (exit_pressed \/ input = BackShort)
    /\ calls' = calls + 1
    /\ UNCHANGED <<file, env, pc, running, event, mutex, display, temp,
                   table, usb_hid_active, hid_connected, hid, debounce, tick,
                   ir_worker, view_port, released, verdict, seen, redraws>>

\* render_callback: furi_mutex_acquire
RenderLock ==
    /\ view_port = "added"
    /\ mutex = "free"
    /\ mutex' = "gui"
    /\ UNCHANGED <<file, env, calls, pc, running, event_queue, enq_count,
                   event, display, temp, table, usb_hid_active,
                   hid_connected, hid, debounce, tick, ir_worker, view_port,
                   released, verdict, seen, dropped,
                   redraws, exit_pressed>>

\* render_callback: drawing the texts, furi_mutex_release
RenderUnlock ==
    /\ mutex = "gui"
    /\ mutex' = "free"
    /\ UNCHANGED <<file, env, calls, pc, running, event_queue, enq_count,
                   event, display, temp, table, usb_hid_active,
                   hid_connected, hid, debounce, tick, ir_worker, view_port,
                   released, verdict, seen, dropped,
                   redraws, exit_pressed>>

\* ------------------------------------------------------------------------
\* The main loop
\* ------------------------------------------------------------------------

\* furi_ms_to_ticks(5) at the platform's tick rate of 1 kHz
debounce_ticks == 5

\* An exit test that takes no key
IsExitKey_Never(input) == FALSE

\* An exit test that takes every press type of Back
IsExitKey_AnyBack(input) == input.key = "Back"

\* The exit test of the main loop on a key event
IsExitKey(input) == input.key = "Back" /\ input.type = "Short"

\* A test that takes no frame for a repeat frame
IsRepeatFrame_Never(ir) == FALSE

\* The test of the main loop for a protocol-level repeat frame
IsRepeatFrame(ir) == ir.repeat

\* A debounce test that does not compare the protocol
DebounceReject_IgnoresProtocol(ir, now) ==
    /\ ir.address = last_addr
    /\ ir.command = last_cmd
    /\ Less32(Sub32(now, last_tick), debounce_ticks)

\* A debounce test without a cooldown: the stored signature is rejected
\* whatever the time
DebounceReject_NoCooldown(ir, now) ==
    /\ ir.protocol = last_proto
    /\ ir.address = last_addr
    /\ ir.command = last_cmd

\* A debounce test that measures the cooldown from the latest signal of the
\* signature that reached the test, accepted or not
DebounceReject_SinceLastSeen(ir, now) ==
    /\ seen # <<>>
    /\ seen[Len(seen)].sig = <<ir.protocol, ir.address, ir.command>>
    /\ Less32(Sub32(now, seen[Len(seen)].tick), debounce_ticks)

\* The debounce test of the main loop on a signal that is no repeat frame
DebounceReject(ir, now) ==
    /\ ir.protocol = last_proto
    /\ ir.address = last_addr
    /\ ir.command = last_cmd
    /\ Less32(Sub32(now, last_tick), debounce_ticks)

\* A dispatch that sends the press without the release
HidDispatch_NoRelease(hid_code, connected) ==
    IF usb_hid_active /\ connected
    THEN <<[op |-> "press", code |-> hid_code]>>
    ELSE <<>>

\* The HID reports the main loop sends for a matched code; connected is the
\* answer of furi_hal_hid_is_connected(), asked only if the transport is
\* active
HidDispatch(hid_code, connected) ==
    IF usb_hid_active /\ connected
    THEN <<[op |-> "press", code |-> hid_code],
           [op |-> "release", code |-> hid_code]>>
    ELSE <<>>

\* The keys the host sees pressed after the reports
RECURSIVE HeldAfter(_, _)
HeldAfter(held, reports) ==
    IF reports = <<>> THEN held
    ELSE HeldAfter(IF Head(reports).op = "press"
                   THEN held \cup {Head(reports).code}
                   ELSE held \ {Head(reports).code},
                   Tail(reports))

\* Ticks that pass between two readings of the tick counter: none, or from
\* one less than the cooldown up to MaxDelta
Deltas == {0} \cup ((debounce_ticks - 1)..MaxDelta)

\* Ticks from the start of the run to tick t (a run stays below 2^16 ticks)
ElapsedAt(t) == Sub32(t, env.boot)[2]
Elapsed == ElapsedAt(tick)

\* The history of the debounce test with one more signal
Seen(sig, now, v) ==
    (IF seen = <<>> THEN <<>> ELSE <<seen[Len(seen)]>>)
    \o <<[sig |-> sig, tick |-> now, verdict |-> v]>>

\* A key event that also resets the debounce state to its initial value
HandleKey_ResetsDebounce(ev) ==
    /\ running' = ~IsExitKey(ev.input)
    /\ pc' = IF IsExitKey(ev.input) THEN "stop_ir" ELSE "wait"
    /\ verdict' = IF IsExitKey(ev.input) THEN "exit" ELSE "key"
    /\ hid_sent' = <<>>
    /\ last_proto' = ProtocolUnknown
    /\ last_addr' = Zero32
    /\ last_cmd' = Zero32
    /\ last_tick' = Zero32
    /\ UNCHANGED <<temp, hid_held, hid_connected, tick, seen>>

\* A key event: leave the loop on a short press of Back
HandleKey(ev) ==
    /\ running' = ~IsExitKey(ev.input)
    /\ pc' = IF IsExitKey(ev.input) THEN "stop_ir" ELSE "wait"
    /\ verdict' = IF IsExitKey(ev.input) THEN "exit" ELSE "key"
    /\ hid_sent' = <<>>
    /\ UNCHANGED <<temp, hid_held, hid_connected, debounce, tick, seen>>

\* A signal event, the tick counter reading now and the host connected or
\* not
HandleIr(ev, now, connected) ==
    LET ir == ev.ir_message
    IN  IF IsRepeatFrame(ir)
        THEN /\ verdict' = "repeat"
             /\ pc' = "wait"
             /\ hid_sent' = <<>>
             /\ UNCHANGED <<running, temp, hid_held, hid_connected, debounce,
                            tick, seen>>
        ELSE /\ tick' = now
             /\ IF DebounceReject(ir, now)
                THEN /\ verdict' = "debounced"
                     /\ seen' = Seen(Signature(ir), now, "debounced")
                     /\ pc' = "wait"
                     /\ hid_sent' = <<>>
                     /\ UNCHANGED <<running, temp, hid_held, hid_connected,
                                    debounce>>
                ELSE LET lk == ir2hid_lookup_hid_code(
                                   lut_ptr = "NULL", lut, lut_count, ir)
                         reports == IF lk.found
                                    THEN HidDispatch(lk.hid_code, connected)
                                    ELSE <<>>
                     IN  /\ last_proto' = ir.protocol
                         /\ last_addr' = ir.address
                         /\ last_cmd' = ir.command
                         /\ last_tick' = now
                         /\ hid_connected' =
                                IF lk.found /\ usb_hid_active THEN connected
                                ELSE hid_connected
                         /\ hid_sent' = reports
                         /\ hid_held' = HeldAfter(hid_held, reports)
                         /\ temp' = <<FormatProto(ir), FormatAddr(ir),
                                      FormatCmd(ir, lk)>>
                         /\ verdict' = "accepted"
                         /\ seen' = Seen(Signature(ir), now, "accepted")
                         /\ pc' = "lock"
                         /\ UNCHANGED running

\* One iteration of the main loop: furi_message_queue_get and the handling
\* of the event, up to the next wait, the acquisition of the mutex or the
\* exit of the loop.  d ticks have passed since the tick counter was last
\* read (read for a signal that is no repeat frame); connected is the host's
\* state (asked for a matched signal).
Consume ==
    /\ pc = "wait"
    /\ event_queue # <<>>
    /\ \E d \in Deltas, connected \in BOOLEAN :
         LET ev == Head(event_queue)
         IN  /\ Elapsed + d <= env.ticks
             /\ (ev.type = "IRSignal" /\ ~ev.ir_message.repeat)
                \/ (d = 0 /\ ~connected)
             /\ event' = ev
             /\ event_queue' = Tail(event_queue)
             /\ redraws' = 0
             /\ IF ev.type = "Key"
                THEN HandleKey(ev)
                ELSE HandleIr(ev, Add32(tick, d), connected)
    /\ UNCHANGED <<file, env, calls, enq_count, mutex, display, table,
                   usb_hid_active, ir_worker, view_port, released, dropped,
                   exit_pressed>>

\* A main loop that goes on to write the display state without the mutex
ConsumerLock_NoAcquire ==
    /\ pc = "lock"
    /\ pc' = "write"
    /\ UNCHANGED <<file, env, calls, running, event_queue, enq_count, event,
                   mutex, display, temp, table, usb_hid_active, hid_connected,
                   hid, debounce, tick, ir_worker, view_port, released,
                   verdict, seen, dropped, redraws, exit_pressed>>

\* furi_mutex_acquire before the display state is written
ConsumerLock ==
    /\ pc = "lock"
    /\ mutex = "free"
    /\ mutex' = "main"
    /\ pc' = "write"
    /\ UNCHANGED <<file, env, calls, running, event_queue, enq_count, event,
                   display, temp, table, usb_hid_active, hid_connected, hid,
                   debounce, tick, ir_worker, view_port, released, verdict,
                   seen, dropped,
                   redraws, exit_pressed>>

\* The copies of temp_proto and temp_addr into the display state
ConsumerWrite ==
    /\ pc = "write"
    /\ text_proto' = Truncate(temp[1])
    /\ text_addr' = Truncate(temp[2])
    /\ pc' = "write_cmd"
    /\ UNCHANGED <<file, env, calls, running, event_queue, enq_count, event,
                   mutex, text_cmd, has_signal, temp, table, usb_hid_active,
                   hid_connected, hid, debounce, tick, ir_worker, view_port,
                   released, verdict, seen, dropped, redraws, exit_pressed>>

\* A write that records in text_cmd that a matched code was not sent
ConsumerRelease_NoHost ==
    /\ pc = "write_cmd"
    /\ text_cmd' = IF hid_sent = <<>> /\ temp[3] # Truncate(
                         StrCmd \o FormatHex04(event.ir_message.command)
                         \o StrNoMap)
                    THEN Truncate(temp[3] \o <<" ", "(", "n", "o", " ", "h", "o",
                                               "s", "t", ")">>)
                    ELSE Truncate(temp[3])
    /\ has_signal' = TRUE
    /\ mutex' = "free"
    /\ redraws' = redraws + 1
    /\ pc' = "wait"
    /\ UNCHANGED <<file, env, calls, running, event_queue, enq_count, event,
                   text_proto, text_addr, temp, table, usb_hid_active,
                   hid_connected, hid, debounce, tick, ir_worker, view_port,
                   released, verdict, seen, dropped, exit_pressed>>

\* A write that does not ask for a redraw
ConsumerRelease_NoUpdate ==
    /\ pc = "write_cmd"
    /\ text_cmd' = Truncate(temp[3])
    /\ has_signal' = TRUE
    /\ mutex' = "free"
    /\ pc' = "wait"
    /\ UNCHANGED <<file, env, calls, running, event_queue, enq_count, event,
                   text_proto, text_addr, temp, table, usb_hid_active,
                   hid_connected, hid, debounce, tick, ir_worker, view_port,
                   released, verdict, seen, dropped, redraws, exit_pressed>>

\* The copy of temp_cmd, has_signal, furi_mutex_release, view_port_update
ConsumerRelease ==
    /\ pc = "write_cmd"
    /\ text_cmd' = Truncate(temp[3])
    /\ has_signal' = TRUE
    /\ mutex' = "free"
    /\ redraws' = redraws + 1
    /\ pc' = "wait"
    /\ UNCHANGED <<file, env, calls, running, event_queue, enq_count, event,
                   text_proto, text_addr, temp, table, usb_hid_active,
                   hid_connected, hid, debounce, tick, ir_worker, view_port,
                   released, verdict, seen, dropped, exit_pressed>>

\* ------------------------------------------------------------------------
\* Cleanup
\* ------------------------------------------------------------------------

\* infrared_worker_rx_stop, infrared_worker_free
StopWorker ==
    /\ pc = "stop_ir"
    /\ ir_worker' = "freed"
    /\ pc' = "rm_view"
    /\ UNCHANGED <<file, env, calls, running, event_queue, enq_count, event,
                   mutex, display, temp, table, usb_hid_active, hid_connected,
                   hid, debounce, tick, view_port, released, verdict, seen, dropped,
                   redraws, exit_pressed>>

\* A cleanup that goes on to free the resources with the view port still
\* added to the GUI
RemoveViewPort_Skipped ==
    /\ pc = "rm_view"
    /\ pc' = "free"
    /\ UNCHANGED <<file, env, calls, running, event_queue, enq_count, event,
                   mutex, display, temp, table, usb_hid_active, hid_connected,
                   hid, debounce, tick, ir_worker, view_port, released,
                   verdict, seen, dropped, redraws, exit_pressed>>

\* gui_remove_view_port (waits for a redraw in progress), view_port_free
RemoveViewPort ==
    /\ pc = "rm_view"
    /\ mutex # "gui"
    /\ view_port' = "freed"
    /\ pc' = "free"
    /\ UNCHANGED <<file, env, calls, running, event_queue, enq_count, event,
                   mutex, display, temp, table, usb_hid_active, hid_connected,
                   hid, debounce, tick, ir_worker, released, verdict, seen, dropped,
                   redraws, exit_pressed>>

\* free(app->lut), the USB configuration restored, furi_mutex_free,
\* furi_message_queue_free, free(app)
FreeResources ==
    /\ pc = "free"
    /\ lut_ptr' = IF lut_ptr = "alloc" THEN "freed" ELSE lut_ptr
    /\ released' = (IF lut_ptr = "alloc" THEN {"lut"} ELSE {})
                   \cup (IF usb_hid_active THEN {"usb_hid"} ELSE {})
                   \cup {"mutex", "event_queue", "app"}
    /\ pc' = "done"
    /\ UNCHANGED <<file, env, calls, running, event_queue, enq_count, event,
                   mutex, display, temp, lut, lut_count, usb_hid_active,
                   hid_connected, hid, debounce, tick, ir_worker, view_port,
                   verdict, seen, dropped,
                   redraws, exit_pressed>>

\* ------------------------------------------------------------------------
\* Specifications
\* ------------------------------------------------------------------------

Next ==
    \/ LoadLut \/ LoadLock \/ LoadNotFound \/ StartWorker
    \/ IrWorkerCallback \/ InputCallback
    \/ RenderLock \/ RenderUnlock
    \/ Consume \/ ConsumerLock \/ ConsumerWrite \/ ConsumerRelease
    \/ StopWorker \/ RemoveViewPort \/ FreeResources

Spec == Init /\ [][Next]_vars

\* A run in which signals and short presses of Back come in any order and
\* number, up to more than the queue holds, within one tick
ExitRun ==
    [signals |-> { Decoded(MsgOf(SigA, FALSE)) },
     inputs |-> { BackShort },
     budget |-> QueueCapacity + MaxOverflow, boot |-> Nat32(2), ticks |-> 0]

\* The table without padding
SmallFile == [exists |-> TRUE, head |-> TableHead, pad |-> 0]

InitExit ==
    /\ file \in { Absent, SmallFile }
    /\ env = ExitRun
    /\ InitApp
    /\ usb_hid_active

\* ir2hid_load_lut returns: reading and parsing a file of bounded size ends
LoadReturns == []<>(pc # "load")

\* The steps of the application thread after the load; its position makes
\* at most one of them possible.
\* The application thread is scheduled: it takes its next step if that is
\* possible again and again, so a thread that waits for the mutex gets it
\* (the mutex is handed to the waiting thread when it is released, and
\* gui_remove_view_port proceeds when the redraw in progress ends).  The
\* render callback returns once it has the mutex.
MainThread ==
    \/ LoadLock \/ LoadNotFound \/ StartWorker
    \/ Consume \/ ConsumerLock \/ ConsumerWrite \/ ConsumerRelease
    \/ StopWorker \/ RemoveViewPort \/ FreeResources

ConsumerFairness ==
    LoadReturns /\ SF_vars(MainThread) /\ WF_vars(RenderUnlock)

SpecExit == InitExit /\ [][Next]_vars /\ ConsumerFairness

\* The startup alone, over the generated table files
NextTable == LoadLut \/ LoadLock \/ LoadNotFound \/ StartWorker

SpecTable == InitTable /\ [][NextTable]_vars

\* ------------------------------------------------------------------------
\* What the table of a text is, stated on the text
\* ------------------------------------------------------------------------

\* The entries the application has loaded
LoadedEntries == SubSeq(lut, 1, lut_count)

IsSeparator(c) == c = CR \/ c = LF

\* Where the lines of text t start: a character that is no line end, at the
\* start of the text or after a line end
LineStarts(t) ==
    { a \in 1..Len(t) :
        ~IsSeparator(t[a]) /\ (a = 1 \/ IsSeparator(t[a - 1])) }

\* The last position of the line that starts at a
LineEndOf(t, a) ==
    CHOOSE b \in a..Len(t) :
        /\ b = Len(t) \/ IsSeparator(t[b + 1])
        /\ \A k \in a..b : ~IsSeparator(t[k])

\* The non-blank lines of t in file order
NonBlankLines(t) ==
    LET starts == LineStarts(t)
        nth(k) == CHOOSE a \in starts :
                      Cardinality({ x \in starts : x < a }) = k - 1
    IN  [k \in 1..Cardinality(starts) |->
            SubSeq(t, nth(k), LineEndOf(t, nth(k)))]

\* The data rows: every non-blank line after the first
DataRows(t) ==
    IF NonBlankLines(t) = <<>> THEN <<>> ELSE Tail(NonBlankLines(t))

Commas(line) == { i \in 1..Len(line) : line[i] = "," }

\* Column k of a line with at least k - 1 commas: the text between comma
\* k - 1 and comma k (or the end of the line)
Column(line, k) ==
    LET cs == Commas(line)
        nth(j) == CHOOSE c \in cs : Cardinality({ x \in cs : x < c }) = j - 1
        from == IF k = 1 THEN 1 ELSE nth(k - 1) + 1
        to == IF Cardinality(cs) >= k THEN nth(k) - 1 ELSE Len(line)
    IN  SubSeq(line, from, to)

LowerDigitChars ==
    <<"0", "1", "2", "3", "4", "5", "6", "7", "8", "9",
      "a", "b", "c", "d", "e", "f">>

IsHexChar(c) ==
    \E v \in 1..16 : DigitChars[v] = c \/ LowerDigitChars[v] = c

HexCharValue(c) ==
    (CHOOSE v \in 1..16 : DigitChars[v] = c \/ LowerDigitChars[v] = c) - 1

\* The digits of a numeric column: the column without an optional 0x or 0X
DigitsOf(col) ==
    IF Len(col) >= 2 /\ col[1] = "0" /\ col[2] \in {"x", "X"}
    THEN SubSeq(col, 3, Len(col))
    ELSE col

IsHexNumber(col) ==
    /\ DigitsOf(col) # <<>>
    /\ \A i \in 1..Len(DigitsOf(col)) : IsHexChar(DigitsOf(col)[i])

\* The value of a hexadecimal number modulo 2^32, as its two 16-bit halves:
\* the digit j places from the right weighs 16^j
HexValue32(col) ==
    LET ds == DigitsOf(col)
        digit(j) == IF j < Len(ds) THEN HexCharValue(ds[Len(ds) - j]) ELSE 0
    IN  <<digit(4) + 16 * digit(5) + 256 * digit(6) + 4096 * digit(7),
          digit(0) + 16 * digit(1) + 256 * digit(2) + 4096 * digit(3)>>

IsProtocolName(col) == \E pn \in ProtocolNames : pn[2] = col

\* A well-formed data row: at least 4 columns, a protocol name of the
\* registry, three hexadecimal numbers, the last of them at most 255
WellFormedRow(line) ==
    /\ Cardinality(Commas(line)) >= 3
    /\ IsProtocolName(Column(line, 1))
    /\ IsHexNumber(Column(line, 2))
    /\ IsHexNumber(Column(line, 3))
    /\ IsHexNumber(Column(line, 4))
    /\ HexValue32(Column(line, 4))[1] = 0
    /\ HexValue32(Column(line, 4))[2] <= 255

EntryOfRow(line) ==
    [ir |-> [protocol |->
                 (CHOOSE pn \in ProtocolNames : pn[2] = Column(line, 1))[1],
             address |-> HexValue32(Column(line, 2)),
             command |-> HexValue32(Column(line, 3)),
             repeat |-> FALSE],
     hid_code |-> HexValue32(Column(line, 4))[2]]

\* The table of text t: the entries of its well-formed data rows, in order
TableOfText(t) ==
    LET rows == SelectSeq(DataRows(t), WellFormedRow)
    IN  [k \in 1..Len(rows) |-> EntryOfRow(rows[k])]

\* The queries of the lookup: every signature over these values
QueryMessages ==
    { Msg(p, a, c, FALSE) :
        p \in {"NEC", "RC5", ProtocolUnknown},
        a \in {Zero32, Nat32(4), <<1, 4>>},
        c \in {Zero32, Nat32(10), Nat32(11)} }

\* The loaded entries with the signature of ir
Matches(ir) ==
    { i \in 1..lut_count : Signature(lut[i].ir) = Signature(ir) }

FirstMatch(ir) == CHOOSE i \in Matches(ir) : \A j \in Matches(ir) : i <= j

\* ------------------------------------------------------------------------
\* Claims
\* ------------------------------------------------------------------------

\* C3: for every loaded table and every query signature, the lookup returns
\* the HID code of the earliest-loaded entry with that signature, also when
\* later entries share the signature with other HID codes, and returns "no
\* match" exactly when no loaded entry has the signature (so for every
\* query on an empty table).
C3_LookupFirstMatch ==
    \A q \in QueryMessages :
        LET r == ir2hid_lookup_hid_code(lut_ptr = "NULL", lut, lut_count, q)
        IN  /\ r.found <=> Matches(q) # {}
            /\ r.found => r.hid_code = lut[FirstMatch(q)].hid_code

\* C3 witness: a loaded table with two entries of one queried signature and
\* different HID codes (and a table slot beyond the loaded entries)
C3_Witness ==
    /\ pc = "ir_setup"
    /\ Len(lut) > lut_count
    /\ \E q \in QueryMessages :
         \E i, j \in Matches(q) : i < j /\ lut[i].hid_code # lut[j].hid_code

\* C4: for a table text that is read (the file opens and is at most
\* MaxFileSize bytes long), the loaded table is exactly the sequence, in file
\* order, of the well-formed data rows after the first non-blank line: a
\* malformed row is dropped, the rows before and after it are loaded.
C4_LoadedIsWellFormedRows ==
    (pc # "load" /\ file.exists /\ FileSize(file) <= MaxFileSize)
        => /\ LoadedEntries = TableOfText(FileText(file))
           /\ lut_ptr = "NULL" => lut_count = 0

\* C4 witness: a loaded file whose rows are well-formed, malformed,
\* well-formed: the two well-formed rows are the table
C4_Witness ==
    /\ pc = "ir_setup"
    /\ file.exists
    /\ Len(DataRows(FileText(file))) = 3
    /\ WellFormedRow(DataRows(FileText(file))[1])
    /\ ~WellFormedRow(DataRows(FileText(file))[2])
    /\ WellFormedRow(DataRows(FileText(file))[3])
    /\ lut_count = 2

\* ------------------------------------------------------------------------
\* Steps of the main loop, as the claims about it speak of them
\* ------------------------------------------------------------------------

\* The step in which the main loop takes the oldest event from the queue
\* (no other step shortens the queue)
Dequeues == event_queue # <<>> /\ event_queue' = Tail(event_queue)

\* The event a dequeuing step takes
Oldest == Head(event_queue)

DequeuesSignal == Dequeues /\ Oldest.type = "IRSignal"

\* The stored signature of the debounce state
LastSignature == <<last_proto, last_addr, last_cmd>>

\* The reports of one press of code, released at once
PressRelease(code) ==
    <<[op |-> "press", code |-> code], [op |-> "release", code |-> code]>>

\* The text_cmd of a signal of command c whose match has HID code h, and of
\* one without a match
MatchText(c, h) == StrCmd \o FormatHex04(c) \o StrHid \o FormatHex02(h)
NoMatchText(c) == StrCmd \o FormatHex04(c) \o StrNoMap

\* No lookup in the loaded table finds an entry
NoLookupMatches ==
    \A q \in QueryMessages :
        ~ir2hid_lookup_hid_code(lut_ptr = "NULL", lut, lut_count, q).found

\* C1: whenever the main loop dequeues a signal event with repeat = TRUE,
\* whatever the debounce state, the tick and the history, the signal is
\* rejected as a repeat frame: no HID report is sent, no key changes, the
\* table is not consulted (nothing is formatted from a lookup), the debounce
\* state and the display state stay as they are, and the loop waits for the
\* next event.
C1_RepeatAlwaysRejected ==
    [][(DequeuesSignal /\ Oldest.ir_message.repeat)
           => /\ verdict' = "repeat"
              /\ hid_sent' = <<>>
              /\ hid_held' = hid_held
              /\ temp' = temp
              /\ debounce' = debounce
              /\ display' = display
              /\ running'
              /\ pc' = "wait"]_vars

\* C1 witness: a repeat frame was rejected although its signature is the
\* stored one, the table holds a match for it and the transport is active
C1_Witness ==
    /\ verdict = "repeat"
    /\ event.ir_message.repeat
    /\ Signature(event.ir_message) = LastSignature
    /\ Matches(event.ir_message) # {}
    /\ usb_hid_active

\* C2 as stated: of two signals of one signature that reach the debounce
\* test one after the other, the second is rejected if it comes less than
\* debounce_ticks after the first and accepted otherwise.
C2_AnyTwoSignals ==
    (Len(seen) = 2 /\ seen[1].sig = seen[2].sig)
        => IF ElapsedAt(seen[2].tick) - ElapsedAt(seen[1].tick) < debounce_ticks
           THEN seen[2].verdict = "debounced"
           ELSE seen[2].verdict = "accepted"

\* C2: a signal that is no repeat frame is rejected by the debounce test
\* exactly when its signature is the one of the latest accepted signal and
\* less than debounce_ticks ticks have passed since that signal was accepted
\* (not since a rejected signal in between); otherwise it is accepted and
\* becomes the latest accepted signal.
C2_CooldownSinceLastAccepted ==
    [][(DequeuesSignal /\ ~Oldest.ir_message.repeat)
           => IF /\ Signature(Oldest.ir_message) = LastSignature
                 /\ ElapsedAt(tick') - ElapsedAt(last_tick) < debounce_ticks
              THEN /\ verdict' = "debounced"
                   /\ debounce' = debounce
                   /\ hid_sent' = <<>>
              ELSE /\ verdict' = "accepted"
                   /\ LastSignature' = Signature(Oldest.ir_message)
                   /\ last_tick' = tick']_vars

\* C2 witness: of three signals of one signature the second was rejected in
\* the cooldown of the first and the third, less than debounce_ticks after
\* the second, was accepted
C2_Witness ==
    /\ Len(seen) = 2
    /\ seen[1].sig = seen[2].sig
    /\ seen[1].verdict = "debounced"
    /\ seen[2].verdict = "accepted"
    /\ ElapsedAt(seen[2].tick) - ElapsedAt(seen[1].tick) < debounce_ticks

\* C5: when the queue holds QueueCapacity events, a callback of either
\* producer can still run (it does not wait), and its step leaves the queue,
\* the count of enqueued events and the main loop as they are: the new event
\* is dropped.
C5_FullQueueDrops ==
    /\ [](Len(event_queue) = QueueCapacity
            => /\ (ir_worker = "rx" /\ calls < env.budget)
                      => ENABLED IrWorkerCallback
               /\ (view_port = "added" /\ calls < env.budget)
                      => ENABLED InputCallback)
    /\ [][(Len(event_queue) = QueueCapacity /\ calls' # calls)
              => /\ event_queue' = event_queue
                 /\ enq_count' = enq_count
                 /\ event' = event
                 /\ pc' = pc]_vars

\* C5 witness: a producer's put found the queue full and the queue still
\* holds the QueueCapacity events enqueued first
C5_Witness ==
    /\ dropped # {}
    /\ Len(event_queue) = QueueCapacity
    /\ \A i \in 1..QueueCapacity : event_queue[i].seq = i

\* C6: the queue holds the enqueued events that are not yet dequeued in the
\* order of their enqueuing; a dequeuing step takes the event enqueued
\* directly after the event taken before it (so each event is taken at most
\* once, in order); and the main loop takes an event only when it has
\* finished with the one before.
C6_FifoOneAtATime ==
    /\ [](\A i \in 1..Len(event_queue) :
              event_queue[i].seq = enq_count - Len(event_queue) + i)
    /\ [](event.seq = enq_count - Len(event_queue))
    /\ [][Dequeues => event' = Oldest /\ event'.seq = event.seq + 1]_vars
    /\ [][event' # event => Dequeues /\ pc = "wait"]_vars
    /\ [][(pc = "lock" \/ pc = "write") => event' = event]_vars

\* C6 witness: the main loop took the second event while a third, of the
\* other producer, waits
C6_Witness ==
    /\ event.seq = 2
    /\ event_queue # <<>>
    /\ \E i \in 1..Len(event_queue) : event_queue[i].type # event.type

\* C7: running falls only in the step that dequeues a short press of Back,
\* and falls in every such step; every other dequeued event leaves it TRUE.
\* Once it is FALSE it stays FALSE, no event is dequeued, no HID report is
\* sent and the display state is not written, whatever the queue holds.
C7_ExitOnlyOnBackShort ==
    /\ [][(running /\ ~running')
              => /\ Dequeues
                 /\ Oldest.type = "Key"
                 /\ Oldest.input.key = "Back"
                 /\ Oldest.input.type = "Short"]_vars
    /\ [][(Dequeues /\ Oldest.type = "Key" /\ Oldest.input.key = "Back"
               /\ Oldest.input.type = "Short")
              => ~running']_vars
    /\ [][~running
              => /\ ~running'
                 /\ ~Dequeues
                 /\ event' = event
                 /\ hid' = hid
                 /\ display' = display]_vars

\* C7 witness: the application has ended with a signal event left in the
\* queue
C7_Witness ==
    /\ pc = "done"
    /\ ~running
    /\ event_queue # <<>>
    /\ \E i \in 1..Len(event_queue) : event_queue[i].type = "IRSignal"

\* C8: a dequeued signal that is accepted and has a match sends, if the
\* transport is active and the host connected, exactly the press of the
\* HID code of its first match followed by its release, and nothing
\* otherwise; its text records the match either way.  A signal without a
\* match, a rejected signal and a key event send nothing.  No key is ever
\* left pressed, and the text of an accepted signal reaches the display
\* state.
C8_PressReleaseOnMatch ==
    /\ [][DequeuesSignal
              => LET ir == Oldest.ir_message
                 IN  IF verdict' = "accepted" /\ Matches(ir) # {}
                     THEN /\ hid_sent' =
                                 IF usb_hid_active /\ hid_connected'
                                 THEN PressRelease(lut[FirstMatch(ir)].hid_code)
                                 ELSE <<>>
                          /\ temp'[3] = MatchText(ir.command,
                                            lut[FirstMatch(ir)].hid_code)
                     ELSE /\ hid_sent' = <<>>
                          /\ verdict' = "accepted"
                                 => temp'[3] = NoMatchText(ir.command)]_vars
    /\ [][(Dequeues /\ Oldest.type # "IRSignal") => hid_sent' = <<>>]_vars
    /\ [][hid_sent' # hid_sent => Dequeues]_vars
    /\ [][(pc = "write_cmd" /\ pc' # pc) => text_cmd' = temp[3]]_vars
    /\ [](hid_held = {})

\* C8 witness: the press and release of the first match's code were sent and
\* the match is on the display, while the table holds a second entry of the
\* signature with another code
C8_Witness ==
    /\ verdict = "accepted"
    /\ pc = "wait"
    /\ Cardinality(Matches(event.ir_message)) > 1
    /\ hid_sent = PressRelease(lut[FirstMatch(event.ir_message)].hid_code)
    /\ text_cmd = MatchText(event.ir_message.command,
                      lut[FirstMatch(event.ir_message)].hid_code)

\* C9: if the table file cannot be opened, no entry is loaded and no table
\* is allocated; once the load has returned, has_signal is TRUE, and the
\* display state shows the "not found" message until a signal is accepted;
\* the display state is written only by the holder of the mutex; the
\* application goes on into its main loop; no lookup finds a match, every
\* accepted signal is formatted as unmatched, and no HID report is sent.
C9_MissingFile ==
    /\ [](~file.exists
            => /\ lut_count = 0 /\ lut_ptr = "NULL"
               /\ NoLookupMatches
               /\ hid_sent = <<>> /\ hid_held = {}
               /\ pc \notin {"load", "load_lock", "load_write"} => has_signal
               /\ (pc = "ir_setup" \/ (pc = "wait" /\ seen = <<>>))
                      => /\ text_proto = StrNotFound
                         /\ text_addr = <<>>
                         /\ text_cmd = <<>>
               /\ verdict = "accepted"
                      => temp[3] = NoMatchText(event.ir_message.command)
               /\ pc \in {"load", "load_lock", "load_write", "ir_setup"}
                      => running)
    /\ [][(~file.exists /\ display' # display) => mutex = "main"]_vars
    /\ [][(~file.exists /\ pc = "load_write" /\ pc' # pc)
              => pc' = "ir_setup"]_vars

\* C9 witness: without a table file a decoded signal was accepted by the
\* main loop and is displayed as unmatched
C9_Witness ==
    /\ ~file.exists
    /\ verdict = "accepted"
    /\ pc = "wait"
    /\ has_signal
    /\ text_cmd = NoMatchText(event.ir_message.command)
    /\ usb_hid_active

\* C10: if the table file is longer than MaxFileSize bytes, no entry is
\* loaded and no table is allocated, whatever rows the file holds; the load
\* returns into the startup, which goes on into the main loop; no lookup
\* finds a match, every accepted signal is formatted as unmatched, and no
\* HID report is sent.
C10_OversizeFile ==
    /\ []((file.exists /\ FileSize(file) > MaxFileSize)
            => /\ lut_count = 0 /\ lut_ptr = "NULL" /\ lut = <<>>
               /\ NoLookupMatches
               /\ hid_sent = <<>>
               /\ verdict = "accepted"
                      => temp[3] = NoMatchText(event.ir_message.command)
               /\ pc \in {"load", "ir_setup"} => running)
    /\ [][(file.exists /\ FileSize(file) > MaxFileSize /\ pc = "load")
              => display' = display /\ (pc' # pc => pc' = "ir_setup")]_vars

\* C10 witness: with a file of one byte more than MaxFileSize, whose rows
\* are well-formed and match the signal, a signal was accepted by the main
\* loop and is displayed as unmatched
C10_Witness ==
    /\ file.exists
    /\ FileSize(file) = MaxFileSize + 1
    /\ TableOfText(file.head) # <<>>
    /\ verdict = "accepted"
    /\ pc = "wait"
    /\ text_cmd = NoMatchText(event.ir_message.command)
    /\ usb_hid_active

\* ------------------------------------------------------------------------
\* The HID column
\* ------------------------------------------------------------------------

\* The data rows of the file whose HID column is a hexadecimal number
RowsWithHid ==
    { j \in 1..Len(DataRows(FileText(file))) :
        /\ Cardinality(Commas(DataRows(FileText(file))[j])) >= 3
        /\ IsHexNumber(Column(DataRows(FileText(file))[j], 4)) }

\* The value of the HID column of data row j, modulo 2^32
HidValue(j) == HexValue32(Column(DataRows(FileText(file))[j], 4))

\* What ir2hid_parse_lut_line returns for data row j
ParsedRow(j) == ir2hid_parse_lut_line(DataRows(FileText(file))[j] \o <<NUL>>, 1)

\* The data rows ir2hid_parse_lut_line accepts
AcceptedRows == { j \in 1..Len(DataRows(FileText(file))) : ParsedRow(j).ok }

\* C11: of a file that is read, a data row is accepted only if its HID
\* column, parsed as a hexadecimal number modulo 2^32 (columns of more than
\* 8 digits included), is at most 255, and its entry then stores that value;
\* a row whose HID value is above 255 is rejected; the loaded entries are
\* the entries of the accepted rows, so every stored HID code is at most
\* 255.
C11_HidFitsEightBits ==
    (pc # "load" /\ file.exists /\ FileSize(file) <= MaxFileSize)
        => /\ \A j \in AcceptedRows :
                 /\ j \in RowsWithHid
                 /\ HidValue(j)[1] = 0 /\ HidValue(j)[2] <= 255
                 /\ ParsedRow(j).entry.hid_code = HidValue(j)[2]
           /\ \A j \in RowsWithHid :
                 (HidValue(j)[1] # 0 \/ HidValue(j)[2] > 255)
                     => j \notin AcceptedRows
           /\ lut_count = Cardinality(AcceptedRows)
           /\ \A i \in 1..lut_count :
                 /\ lut[i].hid_code \in 0..255
                 /\ \E j \in AcceptedRows : lut[i] = ParsedRow(j).entry

\* C11 witness: a loaded file with a row whose HID column has more than 8
\* digits and the value 255 modulo 2^32; the row is loaded with the code 255
C11_Witness ==
    /\ pc = "ir_setup"
    /\ file.exists
    /\ \E j \in AcceptedRows :
         /\ Len(DigitsOf(Column(DataRows(FileText(file))[j], 4))) > 8
         /\ HidValue(j) = <<0, 255>>
         /\ \E i \in 1..lut_count : lut[i] = ParsedRow(j).entry
                                        /\ lut[i].hid_code = 255

\* ------------------------------------------------------------------------
\* The display state of a signal
\* ------------------------------------------------------------------------

\* The display state of signal m with a match of HID code h
MatchDisplay(m, h) ==
    <<FormatProto(m), FormatAddr(m), MatchText(m.command, h), TRUE>>

\* The main loop has finished with an accepted signal that has a match
MatchHandled ==
    /\ pc = "wait"
    /\ verdict = "accepted"
    /\ Matches(event.ir_message) # {}

\* C12 as stated: the display state written for a matched signal whose code
\* was not sent (transport inactive or no host) differs from the display
\* state written for the same match when the code is sent.
C12_NoHostRecorded ==
    (MatchHandled /\ hid_sent = <<>>)
        => display # MatchDisplay(event.ir_message,
                         lut[FirstMatch(event.ir_message)].hid_code)

\* C12: the display state written for an accepted signal with a match is
\* the protocol, address, command and matched HID code of the signal,
\* whether or not the code was sent: with the transport inactive or no host
\* connected it is the display state of the same match with a host, and
\* records no "no host" condition.
C12_DisplayIgnoresHost ==
    /\ [](MatchHandled
            => display = MatchDisplay(event.ir_message,
                             lut[FirstMatch(event.ir_message)].hid_code))
    /\ [][(pc = "write_cmd" /\ pc' = "wait" /\ Matches(event.ir_message) # {})
              => text_cmd' = MatchText(event.ir_message.command,
                                 lut[FirstMatch(event.ir_message)].hid_code)]_vars

\* C12 witness: a matched signal was handled with the transport active and
\* no host connected: nothing was sent and the display shows the match
C12_Witness ==
    /\ MatchHandled
    /\ usb_hid_active
    /\ ~hid_connected
    /\ hid_sent = <<>>
    /\ text_cmd = MatchText(event.ir_message.command,
                      lut[FirstMatch(event.ir_message)].hid_code)

\* C13 as stated: when the main loop has finished with an event, it has
\* called view_port_update once if the event is a signal event and not at
\* all if it is a key event.
C13_RedrawPerSignalEvent ==
    (pc = "wait" /\ event.type # "None")
        => redraws = IF event.type = "IRSignal" THEN 1 ELSE 0

\* C13: view_port_update is called exactly once for every accepted signal,
\* after its display state is written and the mutex released, and not at
\* all for a rejected signal (repeat frame or duplicate in the cooldown) nor
\* for a key event.
C13_RedrawPerAcceptedSignal ==
    /\ [](redraws = IF pc = "wait" /\ verdict = "accepted" THEN 1 ELSE 0)
    /\ [][redraws' > redraws
              => /\ pc = "write_cmd" /\ pc' = "wait"
                 /\ verdict = "accepted"
                 /\ mutex = "main" /\ mutex' = "free"
                 /\ redraws' = 1]_vars

\* C13 witness: the main loop has finished with a rejected signal without a
\* redraw, after an accepted signal with a redraw
C13_Witness ==
    /\ pc = "wait"
    /\ event.type = "IRSignal"
    /\ verdict \in {"repeat", "debounced"}
    /\ redraws = 0
    /\ has_signal
    /\ text_proto = FormatProto(event.ir_message)

\* ------------------------------------------------------------------------
\* The exit
\* ------------------------------------------------------------------------

\* A short press of Back is in the queue
ExitQueued ==
    \E i \in 1..Len(event_queue) :
        event_queue[i].type = "Key" /\ event_queue[i].input = BackShort

\* The loop has stopped and the cleanup has run: the decoder is stopped and
\* freed, the view port removed, the table freed if one was allocated, the
\* USB configuration restored if it was changed, mutex and queue freed
TornDown ==
    /\ pc = "done"
    /\ ~running
    /\ ir_worker = "freed"
    /\ view_port = "freed"
    /\ lut_ptr # "alloc"
    /\ usb_hid_active => "usb_hid" \in released
    /\ {"mutex", "event_queue", "app"} \subseteq released

\* C14 as stated: whenever the input callback has been given a short press
\* of Back, the loop eventually stops and the cleanup runs.
C14_EveryPressExits == exit_pressed ~> TornDown

\* C14: under fair scheduling of the application thread, whenever a short
\* press of Back is in the queue (its put found a free slot), the loop
\* eventually stops and the cleanup of decoder, view port, table, USB, mutex
\* and queue runs, whatever signals and keys are produced meanwhile.
C14_QueuedPressExits == ExitQueued ~> TornDown

\* C14 witness: the cleanup has run after a short press of Back while a
\* table was loaded and events of both producers were still in the queue
C14_Witness ==
    /\ TornDown
    /\ exit_pressed
    /\ lut_ptr = "freed"
    /\ \E i \in 1..Len(event_queue) : event_queue[i].type = "IRSignal"
    /\ \E i \in 1..Len(event_queue) : event_queue[i].type = "Key"

\* ------------------------------------------------------------------------
\* C15: the display state is accessed under the mutex
\* ------------------------------------------------------------------------

\* The display state is the record of one write: the state after the
\* construction, the "not found" message, or the three texts of one signal
WholeRecord ==
    \/ display = <<<<>>, <<>>, <<>>, FALSE>>
    \/ display = <<Truncate(StrNotFound), <<>>, <<>>, TRUE>>
    \/ \E s \in env.signals :
         /\ s.decoded
         /\ text_proto = FormatProto(s.message)
         /\ text_addr = FormatAddr(s.message)
         /\ has_signal
         /\ \/ text_cmd = NoMatchText(s.message.command)
            \/ \E i \in 1..lut_count :
                 text_cmd = MatchText(s.message.command, lut[i].hid_code)

\* The application thread is between furi_mutex_acquire and
\* furi_mutex_release
MainWrites == pc = "load_write" \/ pc = "write" \/ pc = "write_cmd"

\* C15: the display state changes only in steps of the application thread
\* taken while it holds the mutex, and the application thread holds the
\* mutex exactly between an acquisition and the release that follows the
\* writes; while the render callback holds the mutex (it reads the display
\* state only then) the display state is the record of one write, never
\* texts of one signal mixed with texts of another; the main loop never
\* holds the mutex while it waits for the next event, and a step that
\* rejects a repeat frame or a debounced signal goes back to the wait
\* without touching the mutex.
C15_DisplayUnderMutex ==
    /\ [][display' # display => mutex = "main" /\ MainWrites]_vars
    /\ [](mutex = "main" <=> MainWrites)
    /\ [](mutex = "gui" => WholeRecord /\ view_port = "added")
    /\ [](pc = "wait" => mutex # "main")
    /\ [][Dequeues /\ (verdict' = "repeat" \/ verdict' = "debounced")
            => pc' = "wait" /\ mutex' = mutex /\ mutex # "main"]_vars

\* The main loop holds the mutex between its writes for the signal SigB:
\* the display state mixes the address of SigB with the command of SigA
\* written before, while the view port can still be drawn
C15_Witness ==
    /\ pc = "write_cmd"
    /\ mutex = "main"
    /\ ~WholeRecord
    /\ text_addr = FormatAddr(MsgOf(SigB, FALSE))
    /\ text_cmd = NoMatchText(SigA[3])
    /\ view_port = "added"

\* ------------------------------------------------------------------------
\* C16: what the decoding callback and the load may change
\* ------------------------------------------------------------------------

\* A step of a producer callback (each call is counted)
CallbackStep == calls' = calls + 1

\* The step appends exactly one event to the queue and changes no event
\* that is queued
AppendsOne ==
    /\ Len(event_queue') = Len(event_queue) + 1
    /\ SubSeq(event_queue', 1, Len(event_queue)) = event_queue

\* The application thread is in the startup, before the decoder is started
InStartup ==
    pc = "load" \/ pc = "load_lock" \/ pc = "load_write" \/ pc = "ir_setup"

\* C16: a step of the decoding callback leaves the queue as it is (queue
\* full, or no decoded message) or appends one signal event that carries a
\* decoded message, and changes nothing of the display state, the debounce
\* state, the formatted texts, the HID reports, the table and the main
\* loop's position; the table's entries and count change only in the step
\* of the startup load, taken before the decoder exists, its storage changes
\* only there and when the cleanup frees it, and the decoder runs and the
\* main loop waits only after the startup.
C16_CallbackOnlyEnqueues ==
    /\ [][CallbackStep =>
            /\ UNCHANGED <<display, debounce, temp, hid, table, pc, event,
                           mutex, tick, running>>
            /\ event_queue' = event_queue \/ AppendsOne
            /\ \A i \in 1..Len(event_queue') :
                   event_queue'[i].type = "IRSignal"
                   => /\ Decoded(event_queue'[i].ir_message) \in env.signals
                      /\ i > Len(event_queue) => ir_worker = "rx"]_vars
    /\ [][<<lut, lut_count>>' # <<lut, lut_count>>
            => pc = "load" /\ pc' # "load" /\ ir_worker = "none"]_vars
    /\ [][lut_ptr' # lut_ptr
            => \/ pc = "load" /\ lut_ptr' = "alloc"
               \/ pc = "free" /\ lut_ptr' = "freed"]_vars
    /\ [](InStartup => ir_worker = "none" /\ event = NoEvent)
    /\ [](ir_worker = "rx" \/ pc = "wait" => ~InStartup)

\* The main loop has accepted and displayed a signal with a loaded table
\* and waits, and the decoding callback has enqueued further signals behind
\* it
C16_Witness ==
    /\ ir_worker = "rx"
    /\ lut_count >= 2
    /\ has_signal
    /\ last_proto # ProtocolUnknown
    /\ verdict = "accepted" /\ pc = "wait"
    /\ Len(event_queue) >= 2
    /\ \A i \in 1..Len(event_queue) :
           event_queue[i].type = "IRSignal" /\ event_queue[i].seq > event.seq

\* ------------------------------------------------------------------------
\* C17: bursts of identical signals
\* ------------------------------------------------------------------------

\* Ticks between two signals that reached the debounce test
Gap(a, b) == ElapsedAt(b.tick) - ElapsedAt(a.tick)

\* b is a later frame of the burst a belongs to: the same signature, less
\* than debounce_ticks after a
SameBurst(a, b) == a.sig = b.sig /\ Gap(a, b) < debounce_ticks

\* C17 as stated: every frame of a burst after the first is rejected,
\* however long the burst is.
C17_BurstCollapses ==
    (Len(seen) = 2 /\ SameBurst(seen[1], seen[2]))
        => seen[2].verdict = "debounced"

\* C17: the first frame of a burst (no signal before it, or a signal of
\* another signature, or at least debounce_ticks since the signal before
\* it) is accepted; a later frame of the burst is rejected exactly when less
\* than debounce_ticks have passed since the latest accepted frame, so a
\* burst is collapsed into one event per cooldown window, not into one
\* event whatever its length.
C17_BurstCollapsesPerWindow ==
    [][seen' # seen =>
          LET cur == seen'[Len(seen')]
          IN  IF seen # <<>> /\ SameBurst(seen[Len(seen)], cur)
              THEN /\ LastSignature = cur.sig
                   /\ cur.verdict = "debounced"
                      <=> ElapsedAt(cur.tick) - ElapsedAt(last_tick)
                            < debounce_ticks
                   /\ cur.verdict = "accepted"
                      => seen[Len(seen)].verdict = "debounced"
              ELSE cur.verdict = "accepted"]_vars

\* A burst of at least three frames collapsed into one: the two latest
\* frames, debounce_ticks - 1 apart, were both rejected in the cooldown of
\* the accepted first frame
C17_Witness ==
    /\ Len(seen) = 2
    /\ SameBurst(seen[1], seen[2])
    /\ Gap(seen[1], seen[2]) = debounce_ticks - 1
    /\ seen[1].verdict = "debounced"
    /\ seen[2].verdict = "debounced"
    /\ LastSignature = seen[2].sig
    /\ ElapsedAt(seen[2].tick) - ElapsedAt(last_tick) = debounce_ticks - 1

\* ------------------------------------------------------------------------
\* C18: what changes the debounce state
\* ------------------------------------------------------------------------

\* The step dequeues an event that the main loop rejects: a repeat frame or
\* a signal inside the cooldown
DequeuesRejected ==
    Dequeues /\ (verdict' = "repeat" \/ verdict' = "debounced")

\* C18: the debounce state changes only in a step that accepts a signal;
\* a step that accepts a signal sets it to the signal's signature and the
\* tick counter's reading of that step; a step that rejects a signal leaves
\* the debounce state, the display state, the formatted texts and the keys
\* the host sees pressed unchanged, sends no HID report and goes back to
\* the wait; a step that dequeues a key event leaves the debounce state
\* unchanged.
C18_DebounceSetOnAccept ==
    /\ [][debounce' # debounce => DequeuesSignal /\ verdict' = "accepted"]_vars
    /\ [][Dequeues /\ verdict' = "accepted"
            => /\ Oldest.type = "IRSignal"
               /\ LastSignature' = Signature(Oldest.ir_message)
               /\ last_tick' = tick']_vars
    /\ [][DequeuesRejected
            => /\ UNCHANGED <<debounce, display, temp, hid_held, mutex>>
               /\ hid_sent' = <<>>
               /\ redraws' = 0
               /\ pc' = "wait"]_vars
    /\ [][Dequeues /\ Oldest.type = "Key" => UNCHANGED debounce]_vars

\* A signal was rejected inside the cooldown at a later tick than the
\* stored one, with the display state of the accepted signal in place, and
\* after it a key event was handled with the debounce state still set
C18_Witness ==
    /\ verdict = "key"
    /\ Len(seen) = 2
    /\ seen[2].verdict = "debounced"
    /\ seen[2].tick # last_tick
    /\ LastSignature = seen[2].sig
    /\ tick = seen[2].tick
    /\ has_signal
    /\ text_addr = FormatAddr(MsgOf(seen[2].sig, FALSE))

\* ------------------------------------------------------------------------
\* C19: the first signal after the startup
\* ------------------------------------------------------------------------

\* The debounce state ir2hid_app constructs
InitialDebounce == <<ProtocolUnknown, Zero32, Zero32, Zero32>>

\* C19: until a signal has reached the debounce test the debounce state is
\* the constructed one, and the step that takes the first signal that is no
\* repeat frame to the debounce test accepts it, whatever its signature and
\* the reading of the tick counter.  The signals are the decoder's: each
\* carries a protocol of the registry, never ProtocolUnknown.
C19_FirstSignalAccepted ==
    /\ [](seen = <<>> => debounce = InitialDebounce)
    /\ [](\A i \in 1..Len(event_queue) :
             event_queue[i].type = "IRSignal"
             => infrared_is_protocol_valid(event_queue[i].ir_message.protocol))
    /\ [][(DequeuesSignal /\ ~Oldest.ir_message.repeat /\ seen = <<>>)
            => /\ verdict' = "accepted"
               /\ LastSignature' = Signature(Oldest.ir_message)]_vars

\* The first signal, with address 0 and command 0, was accepted less than
\* debounce_ticks after tick 0: only its protocol differs from the
\* constructed debounce state
C19_Witness ==
    /\ Len(seen) = 1
    /\ seen[1].verdict = "accepted"
    /\ seen[1].sig = SigB
    /\ Less32(seen[1].tick, debounce_ticks)
    /\ debounce = <<SigB[1], Zero32, Zero32, seen[1].tick>>

\* ------------------------------------------------------------------------
\* C20: the order of the cleanup
\* ------------------------------------------------------------------------

\* A callback can still run: the decoder receives, or the view port (input
\* and render callbacks) is added to the GUI
CallbacksLive == ir_worker = "rx" \/ view_port = "added"

\* The render callback takes, holds or gives back the mutex in this step
RenderStep == mutex' = "gui" \/ mutex = "gui"

\* C20: nothing is released while the main loop runs or a callback can
\* still run or the mutex is held; the decoder is stopped only after the
\* loop was left and the view port removed only after the decoder was
\* stopped; every step of a producer callback finds the queue allocated and
\* every step of the render callback the mutex allocated; and the cleanup
\* releases the resources in one final step, after which nothing changes.
C20_NoUseAfterRelease ==
    /\ [](released # {} =>
             /\ pc = "done" /\ ~running
             /\ ~CallbacksLive
             /\ ir_worker = "freed" /\ view_port = "freed"
             /\ mutex = "free")
    /\ [](ir_worker = "freed" => ~running)
    /\ [](view_port = "freed" => ir_worker = "freed")
    /\ [][CallbackStep => "event_queue" \notin released /\ CallbacksLive]_vars
    /\ [][RenderStep => "mutex" \notin released /\ released' = {}]_vars
    /\ [][released' # released => pc = "free" /\ released = {}]_vars

\* The cleanup has freed the mutex and the queue while events were still
\* queued and the producers had more to deliver; no call was dropped
C20_Witness ==
    /\ {"mutex", "event_queue", "lut"} \subseteq released
    /\ view_port = "freed"
    /\ ir_worker = "freed"
    /\ event_queue # <<>>
    /\ calls < env.budget
    /\ dropped = {}

====
